---- MODULE Spec2Model ----
(***************************************************************************)
(* Model of src/app.py, the "Review AI Dashboard" Streamlit script.        *)
(*                                                                         *)
(* The script is re-executed top to bottom on every user interaction.  One *)
(* action of the model is one interaction followed by the whole script run *)
(* it triggers.  Text is modelled as sequences of one-character strings,   *)
(* so splitting, replacing, slicing and joining are computed on the        *)
(* characters as pandas / Python compute them.                             *)
(***************************************************************************)
EXTENDS Integers, Sequences, FiniteSets, TLC

VARIABLES
    file,            \* data.csv as found on disk (never changes during a run)
    started,         \* the script has run at least once in this session
    selection,       \* value of the sidebar radio
    selected_year,   \* value of the year selectbox (NoYear: widget has no state)
    selected_month,  \* value of the month slider (NoMonth: widget has no state)
    clicked,         \* st.button returned True in the last script run
    rendered,        \* elements the last script run put on the page, in order
    uncaught,        \* exception that ended the last script run ("none" if none)
    submitted,       \* argument lists the classifier received in the last run
    results,         \* what the classifier returned in the last run
    wc_inputs,       \* texts WordCloud.generate received in the last run
    model_loaded     \* load_sentiment_model has been called in this process

vars == <<file, started, selection, selected_year, selected_month, clicked,
          rendered, uncaught, submitted, results, wc_inputs, model_loaded>>

-----------------------------------------------------------------------------
(* Bounds of the model *)

\* largest number of rows of data.csv in the general specification
MaxRows == 2
\* largest number of pieces a generated product name is built from
MaxNamePieces == 2

-----------------------------------------------------------------------------
(* Text *)

\* the literal "Product: " removed from the name column
Prefix == <<"P", "r", "o", "d", "u", "c", "t", ":", " ">>
\* the literal " - " the content column is split on
Delim == <<" ", "-", " ">>
\* slice bound of the texts handed to the classifier
MaxChars == 512
\* a missing value (NaN / None) of a text column: a one-element sequence
\* holding a token that is no character
NaN == <<"<NA>">>
\* a missing value of a numeric column
NaNf == [nan |-> TRUE, m |-> 0, e |-> 0]

Digits == {"0", "1", "2", "3", "4", "5", "6", "7", "8", "9"}
Letters == {"A", "B", "P", "r", "o", "d", "u", "c", "t", "g", "k", "a", "W"}

Min(a, b) == IF a < b THEN a ELSE b
Max(a, b) == IF a > b THEN a ELSE b

\* s has pattern p at position i
StartsAt(s, p, i) ==
    /\ i + Len(p) - 1 <= Len(s)
    /\ \A k \in 1..Len(p) : s[i + k - 1] = p[k]

\* str.find: position of the first occurrence of p in s, 0 if there is none
Find(s, p) ==
    IF \E i \in 1..Len(s) : StartsAt(s, p, i)
    THEN CHOOSE i \in 1..Len(s) :
            StartsAt(s, p, i) /\ \A j \in 1..(i - 1) : ~StartsAt(s, p, j)
    ELSE 0

\* mutant of SplitOnce: splits at the last occurrence of the delimiter
SplitOnceLast(s, p) ==
    IF Find(s, p) = 0 THEN <<s>>
    ELSE LET i == CHOOSE i \in 1..Len(s) :
                    StartsAt(s, p, i) /\ \A j \in (i + 1)..Len(s) : ~StartsAt(s, p, j)
         IN <<SubSeq(s, 1, i - 1), SubSeq(s, i + Len(p), Len(s))>>

\* str.split(p, n=1) of one string: the list of parts, one or two of them
SplitOnce(s, p) ==
    IF Find(s, p) = 0 THEN <<s>>
    ELSE LET i == Find(s, p)
         IN <<SubSeq(s, 1, i - 1), SubSeq(s, i + Len(p), Len(s))>>

\* str.replace(old, "") of one string: every occurrence is removed, left to right
RECURSIVE RemoveAll(_, _)
RemoveAll(s, old) ==
    LET i == Find(s, old)
    IN IF i = 0 THEN s
       ELSE SubSeq(s, 1, i - 1) \o RemoveAll(SubSeq(s, i + Len(old), Len(s)), old)

\* mutant of StrReplace: the text is left as it is
StrReplaceKeep(s, old) == s

\* Series.str.replace(old, "") on one cell; a missing cell stays missing
StrReplace(s, old) == IF s = NaN THEN NaN ELSE RemoveAll(s, old)

\* leading and trailing blanks removed, as the float parser skips them
RECURSIVE Strip(_)
Strip(s) ==
    IF s = <<>> THEN s
    ELSE IF Head(s) = " " THEN Strip(Tail(s))
    ELSE IF s[Len(s)] = " " THEN Strip(SubSeq(s, 1, Len(s) - 1))
    ELSE s

DigitVal(c) ==
    CASE c = "0" -> 0 [] c = "1" -> 1 [] c = "2" -> 2 [] c = "3" -> 3
      [] c = "4" -> 4 [] c = "5" -> 5 [] c = "6" -> 6 [] c = "7" -> 7
      [] c = "8" -> 8 [] c = "9" -> 9

\* value of a string of digits
RECURSIVE DigitsVal(_)
DigitsVal(s) ==
    IF s = <<>> THEN 0 ELSE 10 * DigitsVal(SubSeq(s, 1, Len(s) - 1)) + DigitVal(s[Len(s)])

\* a number m * 10^(-e) with trailing zeros of the fraction dropped
RECURSIVE Norm(_, _)
Norm(m, e) ==
    IF e > 0 /\ m % 10 = 0 THEN Norm(m \div 10, e - 1)
    ELSE [nan |-> FALSE, m |-> m, e |-> e]

\* the text is a decimal number: optional sign, digits with at most one point
IsDecimal(t) ==
    LET u == IF t # <<>> /\ Head(t) \in {"-", "+"} THEN Tail(t) ELSE t
    IN /\ \A k \in 1..Len(u) : u[k] \in Digits \cup {"."}
       /\ Cardinality({k \in 1..Len(u) : u[k] = "."}) <= 1
       /\ \E k \in 1..Len(u) : u[k] \in Digits

\* value of a decimal text
DecimalVal(t) ==
    LET neg == t # <<>> /\ Head(t) = "-"
        u == IF t # <<>> /\ Head(t) \in {"-", "+"} THEN Tail(t) ELSE t
        d == SelectSeq(u, LAMBDA c : c \in Digits)
        p == Find(u, <<".">>)
        n == Norm(DigitsVal(d), IF p = 0 THEN 0 ELSE Len(u) - p)
    IN [nan |-> FALSE, m |-> IF neg THEN 0 - n.m ELSE n.m, e |-> n.e]

\* pd.to_numeric(errors='coerce') on one cell: the number, NaN when the cell
\* is missing or is no number
ToNumeric(s) ==
    IF s # NaN /\ IsDecimal(Strip(s)) THEN DecimalVal(Strip(s)) ELSE NaNf

\* t[:512]
Truncate(t) == SubSeq(t, 1, Min(Len(t), MaxChars))

\* " ".join(texts)
RECURSIVE Join(_)
Join(texts) ==
    IF texts = <<>> THEN <<>>
    ELSE IF Len(texts) = 1 THEN texts[1]
    ELSE texts[1] \o <<" ">> \o Join(Tail(texts))

\* the text holds at least one word for the word cloud (a letter or a digit)
HasWord(t) == \E k \in 1..Len(t) : t[k] \in Letters \cup Digits

-----------------------------------------------------------------------------
(* data.csv and load_data *)

\* a date cell of data.csv: a parseable date, an empty cell, or other text
Date(y, m) == [kind |-> "valid", year |-> y, month |-> m]
NoDate == [kind |-> "empty", year |-> 0, month |-> 0]
BadDate == [kind |-> "bad", year |-> 0, month |-> 0]

Row(t, c, d) == [type |-> t, content |-> c, date |-> d]

\* pd.read_csv on one row: an empty content cell is read as NaN
ReadRow(r) == [r EXCEPT !.content = IF r.content = <<>> THEN NaN ELSE r.content]

\* pd.to_datetime on the date column raises on a cell that is no date
DatesParse(rows) == \A i \in 1..Len(rows) : rows[i].date.kind # "bad"

\* load_data: what it returns, or the exception that leaves it.  Only
\* FileNotFoundError is caught.
load_data(f) ==
    CASE f.state = "missing" -> [exc |-> "none", df |-> <<>>]
      [] f.state = "zero_byte" -> [exc |-> "EmptyDataError", df |-> <<>>]
      [] f.state = "unreadable" -> [exc |-> "PermissionError", df |-> <<>>]
      [] f.state = "ok" ->
            IF DatesParse(f.rows)
            THEN [exc |-> "none", df |-> [i \in 1..Len(f.rows) |-> ReadRow(f.rows[i])]]
            ELSE [exc |-> "ValueError", df |-> <<>>]

\* df[df["type"] == t]
OfType(df, t) == SelectSeq(df, LAMBDA r : r.type = t)

-----------------------------------------------------------------------------
(* Page elements *)

El(kind, text, n, rows) == [el |-> kind, text |-> text, n |-> n, rows |-> rows]
Msg(kind, text) == El(kind, text, 0, <<>>)

\* what an interrupted or finished stretch of the script leaves behind
Out(els, exc) == [els |-> els, exc |-> exc]

-----------------------------------------------------------------------------
(* Products *)

\* Series.str.split(p, n=1, expand=True): one list of parts per row, in a
\* frame with as many columns as the longest list; a missing cell gives a
\* row of missing values
SplitExpand(contents, p) ==
    LET parts == [i \in 1..Len(contents) |->
                    IF contents[i] = NaN THEN <<NaN>> ELSE SplitOnce(contents[i], p)]
        widths == {Len(parts[i]) : i \in 1..Len(contents)}
    IN [ncols |-> IF widths = {} THEN 0 ELSE CHOOSE w \in widths : \A v \in widths : v <= w,
        parts |-> parts]

\* the frame has a column labelled k (labels start at 0)
HasColumn(split, k) == k < split.ncols

\* split_data[k]: the cells of column k, missing where the row has fewer parts
Column(split, k) ==
    [i \in 1..Len(split.parts) |->
        IF Len(split.parts[i]) > k THEN split.parts[i][k + 1] ELSE NaN]

\* one row of the product table
ProductRow(name, price) == [name |-> name, price |-> price]

\* the "Products" branch
ProductsBranch(df) ==
    LET products_df == OfType(df, "product")
        contents == [i \in 1..Len(products_df) |-> products_df[i].content]
        split_data == SplitExpand(contents, Delim)
        names == [i \in 1..Len(contents) |-> StrReplace(Column(split_data, 0)[i], Prefix)]
        prices == [i \in 1..Len(contents) |-> ToNumeric(Column(split_data, 1)[i])]
        head == <<Msg("header", "Products")>>
    IN IF products_df = <<>>
       THEN Out(head \o <<Msg("warning", "No products found in data.csv.")>>, "none")
       ELSE LET info == head \o <<El("info", "products found.", Len(products_df), <<>>)>>
            IN IF ~HasColumn(split_data, 1)
               THEN Out(info, "KeyError")
               ELSE Out(info \o <<El("dataframe", "products", 0,
                                     [i \in 1..Len(contents) |->
                                        ProductRow(names[i], prices[i])])>>,
                        "none")

-----------------------------------------------------------------------------
(* Testimonials *)

\* the "Testimonials" branch
TestimonialsBranch(df) ==
    LET testimonials_df == OfType(df, "testimonial")
        head == <<Msg("header", "Customer Testimonials")>>
    IN IF testimonials_df = <<>>
       THEN Out(head \o <<Msg("warning", "No testimonials found in data.csv.")>>, "none")
       ELSE Out(head \o <<El("info", "testimonials found.", Len(testimonials_df), <<>>),
                          El("dataframe", "testimonials", 0,
                             [i \in 1..Len(testimonials_df) |->
                                [content |-> testimonials_df[i].content]])>>,
                "none")

-----------------------------------------------------------------------------
(* Reviews *)

NoYear == 0
NoMonth == "none"
\* the fallback year offered when no year is found
FallbackYear == 2023

months == <<"January", "February", "March", "April", "May", "June",
            "July", "August", "September", "October", "November", "December">>

Range(seq) == {seq[i] : i \in 1..Len(seq)}

\* list.index: zero-based position of the first element equal to x
IndexOf(seq, x) == (CHOOSE i \in 1..Len(seq) : seq[i] = x /\ \A j \in 1..(i - 1) : seq[j] # x) - 1

\* mutant of MonthIndex: the zero-based position is used as the month number
MonthIndexZeroBased(m) == IndexOf(months, m)

\* month_index = months.index(selected_month) + 1
MonthIndex(m) == IndexOf(months, m) + 1

\* sorted(S, reverse=True)
RECURSIVE SortedDesc(_)
SortedDesc(S) ==
    IF S = {} THEN <<>>
    ELSE LET top == CHOOSE x \in S : \A y \in S : y <= x
         IN <<top>> \o SortedDesc(S \ {top})

\* sorted(S)
RECURSIVE SortedAsc(_)
SortedAsc(S) ==
    IF S = {} THEN <<>>
    ELSE LET low == CHOOSE x \in S : \A y \in S : x <= y
         IN <<low>> \o SortedAsc(S \ {low})

\* mutant of available_years: the years in ascending order
available_years_ascending(reviews_df) ==
    LET years == SortedAsc({reviews_df[i].date.year : i \in 1..Len(reviews_df)})
    IN IF years = <<>> THEN <<FallbackYear>> ELSE years

\* the options of the year selectbox
available_years(reviews_df) ==
    LET years == SortedDesc({reviews_df[i].date.year : i \in 1..Len(reviews_df)})
    IN IF years = <<>> THEN <<FallbackYear>> ELSE years

\* filtered_reviews: the rows of reviews_df in the selected year and month
\* (a missing date equals no year and no month)
ApplyFilters(reviews_df, year, month_index) ==
    SelectSeq(reviews_df, LAMBDA r : /\ r.date.kind = "valid"
                                     /\ r.date.year = year
                                     /\ r.date.month = month_index)

\* mutant of ButtonValue: the button reads as pressed in every run
ButtonValueSticky(click) == TRUE

\* st.button: True only in the run its click triggered
ButtonValue(click) == click

\* mutant of Classify: a failed call is made a second time
ClassifyRetry(short_texts, cls) ==
    [exc |-> IF cls.raises THEN "ClassifierError" ELSE "none",
     calls |-> IF cls.raises THEN <<short_texts, short_texts>> ELSE <<short_texts>>,
     results |-> IF cls.raises THEN <<>> ELSE [i \in 1..Len(short_texts) |-> cls.out[i]]]

\* results = sentiment_pipeline(short_texts): the call is made once; it
\* raises, or returns one result per text
Classify(short_texts, cls) ==
    [exc |-> IF cls.raises THEN "ClassifierError" ELSE "none",
     calls |-> <<short_texts>>,
     results |-> IF cls.raises THEN <<>> ELSE [i \in 1..Len(short_texts) |-> cls.out[i]]]

\* mutant of Annotate: the results are attached in reverse order
AnnotateReversed(filtered_reviews, res) ==
    [i \in 1..Len(filtered_reviews) |->
        [date |-> filtered_reviews[i].date, content |-> filtered_reviews[i].content,
         sentiment |-> res[Len(res) + 1 - i].label,
         confidence |-> res[Len(res) + 1 - i].score]]

\* filtered_reviews with the "sentiment" and "confidence" columns
Annotate(filtered_reviews, res) ==
    [i \in 1..Len(filtered_reviews) |->
        [date |-> filtered_reviews[i].date, content |-> filtered_reviews[i].content,
         sentiment |-> res[i].label, confidence |-> res[i].score]]

\* result of a stretch of the Reviews branch
RvOut(els, exc, calls, res, wc) ==
    [els |-> els, exc |-> exc, calls |-> calls, results |-> res, wc |-> wc]

\* the word cloud section: WordCloud.generate raises ValueError on a text
\* without a word, and the handler shows it as an error
WordCloudSection(contents) ==
    LET all_text == Join(contents)
    IN [els |-> <<Msg("markdown", "Word Cloud")>> \o
                IF all_text # <<>>
                THEN IF HasWord(all_text) THEN <<Msg("pyplot", "wordcloud")>>
                     ELSE <<Msg("error", "Could not generate Word Cloud")>>
                ELSE <<Msg("warning", "Not enough text for a word cloud.")>>,
        wc |-> IF all_text # <<>> THEN <<all_text>> ELSE <<>>]

\* the body of the analysis button
Analysis(filtered_reviews, cls) ==
    LET texts == [i \in 1..Len(filtered_reviews) |-> filtered_reviews[i].content]
        short_texts == [i \in 1..Len(texts) |-> Truncate(texts[i])]
        call == Classify(short_texts, cls)
        annotated == Annotate(filtered_reviews, call.results)
        cloud == WordCloudSection(texts)
    IN IF \E i \in 1..Len(texts) : texts[i] = NaN
       THEN RvOut(<<>>, "TypeError", <<>>, <<>>, <<>>)
       ELSE IF call.exc # "none"
       THEN RvOut(<<>>, call.exc, call.calls, <<>>, <<>>)
       ELSE RvOut(<<Msg("markdown", "Sentiment Distribution"),
                    El("altair_chart", "Count by Sentiment with Avg Confidence Score",
                       0, annotated)>>
                  \o cloud.els
                  \o <<Msg("markdown", "Details"), El("dataframe", "details", 0, annotated)>>,
                  "none", call.calls, call.results, cloud.wc)

\* the "Reviews" branch
ReviewsBranch(df, year_state, month_state, click, cls) ==
    LET reviews_df == OfType(df, "review")
        head == <<Msg("header", "Review Analysis (AI Powered)")>>
    IN IF reviews_df = <<>>
       THEN [run |-> RvOut(head \o <<Msg("warning", "No reviews found.")>>,
                           "none", <<>>, <<>>, <<>>),
             year |-> NoYear, month |-> NoMonth]
       ELSE
        LET years == available_years(reviews_df)
            year == IF year_state \in Range(years) THEN year_state ELSE years[1]
            month == IF month_state \in Range(months) THEN month_state ELSE months[1]
            month_index == MonthIndex(month)
            filtered_reviews == ApplyFilters(reviews_df, year, month_index)
            top == head \o <<El("selectbox", "Select Year:", year, years),
                             El("select_slider", month, 0, months),
                             El("subheader", month, year, <<>>)>>
            preview == <<El("write", "Count:", Len(filtered_reviews), <<>>),
                         Msg("markdown", "Preview of Reviews"),
                         El("dataframe", "preview", 0,
                            [i \in 1..Len(filtered_reviews) |->
                                [date |-> filtered_reviews[i].date,
                                 content |-> filtered_reviews[i].content]]),
                         Msg("button", "Start Sentiment Analysis")>>
            body == Analysis(filtered_reviews, cls)
        IN [run |->
              IF filtered_reviews = <<>>
              THEN RvOut(top \o <<Msg("info", "No reviews found for this time period.")>>,
                         "none", <<>>, <<>>, <<>>)
              ELSE IF ~ButtonValue(click)
              THEN RvOut(top \o preview, "none", <<>>, <<>>, <<>>)
              ELSE RvOut(top \o preview \o body.els, body.exc, body.calls,
                         body.results, body.wc),
            year |-> year, month |-> month]

-----------------------------------------------------------------------------
(* One run of the script *)

options == <<"Products", "Testimonials", "Reviews">>

\* everything one run of the script produces
RunOut(els, exc, year, month, calls, res, wc, loaded) ==
    [els |-> els, exc |-> exc, year |-> year, month |-> month, calls |-> calls,
     results |-> res, wc |-> wc, loaded |-> loaded]

\* the script, top to bottom, on the widget values of this run
ScriptRun(f, sel, year_state, month_state, click, cls, loaded) ==
    LET top == <<Msg("title", "E-Commerce Sentiment Analysis Dashboard"),
                 Msg("markdown", "Analysis of product reviews using Hugging Face Transformers.")>>
        ld == load_data(f)
        df == ld.df
        nav == top \o <<Msg("sidebar.header", "Navigation"),
                        El("sidebar.radio", sel, 0, options)>>
        p == ProductsBranch(df)
        t == TestimonialsBranch(df)
        r == ReviewsBranch(df, year_state, month_state, click, cls)
    IN IF ld.exc # "none"
       THEN RunOut(top, ld.exc, NoYear, NoMonth, <<>>, <<>>, <<>>, loaded)
       ELSE IF df = <<>>
       THEN RunOut(top \o <<Msg("error", "File 'data.csv' not found or empty. Please run 'scraper_selenium.py' first!")>>,
                   "none", NoYear, NoMonth, <<>>, <<>>, <<>>, loaded)
       ELSE IF sel = "Products"
       THEN RunOut(nav \o p.els, p.exc, NoYear, NoMonth, <<>>, <<>>, <<>>, TRUE)
       ELSE IF sel = "Testimonials"
       THEN RunOut(nav \o t.els, t.exc, NoYear, NoMonth, <<>>, <<>>, <<>>, TRUE)
       ELSE RunOut(nav \o r.run.els, r.run.exc, r.year, r.month, r.run.calls,
                   r.run.results, r.run.wc, TRUE)

-----------------------------------------------------------------------------
(* Inputs *)

Good == <<"g", "o", "o", "d">>
Blank == <<" ">>
Long == [i \in 1..(MaxChars + 2) |-> "a"]
Price5 == <<"5">>
Price1999 == <<"1", "9", ".", "9", "9">>
Price050 == <<"0", ".", "5", "0">>

\* rows of data.csv the general files are made of
Templates ==
    { Row("review", Good, Date(2024, 1)),
      Row("review", Blank, Date(2024, 1)),
      Row("review", Long, Date(2024, 1)),
      Row("review", <<>>, Date(2023, 12)),
      Row("review", Good, Date(2023, 1)),
      Row("other", Good, Date(2024, 1)),
      Row("review", Good, BadDate),
      Row("product", Prefix \o <<"A">> \o Delim \o Price5, Date(2024, 1)),
      Row("testimonial", Good, NoDate) }

RowSeqs == UNION {[1..n -> Templates] : n \in 0..MaxRows}

\* product names: up to MaxNamePieces pieces, one after the other
NamePieces == {<<"A">>, <<"-">>, <<" ">>, Delim, Prefix}

RECURSIVE NamesOf(_)
NamesOf(n) ==
    IF n = 0 THEN {<<>>}
    ELSE NamesOf(n - 1) \cup {a \o b : a \in NamesOf(n - 1), b \in NamePieces}

Names == NamesOf(MaxNamePieces)

\* price texts, each with the number it denotes
PriceTexts == {Price5, Price1999, Price050}
PriceValue(t) ==
    CASE t = Price5 -> [nan |-> FALSE, m |-> 5, e |-> 0]
      [] t = Price1999 -> [nan |-> FALSE, m |-> 1999, e |-> 2]
      [] t = Price050 -> [nan |-> FALSE, m |-> 5, e |-> 1]

\* "Product: {name} - {price}"
WellFormed(name, price) == Prefix \o name \o Delim \o price

\* "Product: A - B - 19.99"
TwoDelims == Prefix \o <<"A">> \o Delim \o <<"B">> \o Delim \o Price1999

ProductContents ==
    {WellFormed(n, t) : n \in Names, t \in PriceTexts}
        \cup {Prefix \o n : n \in Names}
        \cup (Names \ {<<>>})
        \cup {TwoDelims}

\* a second product row
Companions == {<<>>, <<Row("product", WellFormed(<<"B">>, Price1999), NoDate)>>,
               <<Row("product", <<"W">>, NoDate)>>}

\* reviews of two years after the product rows
ReviewTail == <<Row("review", Good, Date(2023, 2)), Row("review", Blank, Date(2024, 3))>>

ProductRowSeqs ==
    {<<Row("product", c, NoDate)>> \o k : c \in ProductContents, k \in Companions}
        \cup {<<Row("product", TwoDelims, NoDate)>> \o ReviewTail}

Files ==
    {[state |-> s, rows |-> <<>>] : s \in {"missing", "zero_byte", "unreadable"}}
        \cup {[state |-> "ok", rows |-> r] : r \in RowSeqs \cup ProductRowSeqs}

\* the classifier: it raises, or labels the i-th text with out[i]
Labels == {[label |-> "POSITIVE", score |-> 99], [label |-> "NEGATIVE", score |-> 60]}
Classifiers == [raises : BOOLEAN, out : [1..Max(MaxRows, 2) -> Labels]]
Quiet == CHOOSE c \in Classifiers : ~c.raises

-----------------------------------------------------------------------------
(* The session *)

Init ==
    /\ file \in Files
    /\ started = FALSE
    /\ selection = options[1]
    /\ selected_year = NoYear
    /\ selected_month = NoMonth
    /\ clicked = FALSE
    /\ rendered = <<>>
    /\ uncaught = "none"
    /\ submitted = <<>>
    /\ results = <<>>
    /\ wc_inputs = <<>>
    /\ model_loaded = FALSE

\* the element of the given kind is on the page
Shown(kind) == \E i \in 1..Len(rendered) : rendered[i].el = kind

\* the script runs on the given widget values and the page is replaced (the
\* classifier is consulted only by the body of the button, so one classifier
\* stands for all in a run without a click)
Rerun(sel, year_state, month_state, click) ==
    \E cls \in IF click THEN Classifiers ELSE {Quiet} :
      \E out \in {ScriptRun(file, sel, year_state, month_state, click, cls, model_loaded)} :
        /\ started' = TRUE
        /\ selection' = sel
        /\ selected_year' = out.year
        /\ selected_month' = out.month
        /\ clicked' = click
        /\ rendered' = out.els
        /\ uncaught' = out.exc
        /\ submitted' = out.calls
        /\ results' = out.results
        /\ wc_inputs' = out.wc
        /\ model_loaded' = out.loaded
        /\ UNCHANGED file

\* the page is opened
Start ==
    /\ ~started
    /\ Rerun(selection, selected_year, selected_month, FALSE)

\* another entry of the sidebar radio is chosen
Navigate(sel) ==
    /\ started /\ Shown("sidebar.radio")
    /\ sel # selection
    /\ Rerun(sel, selected_year, selected_month, FALSE)

\* another year is chosen in the selectbox
SelectYear(y) ==
    /\ started /\ Shown("selectbox")
    /\ y # selected_year
    /\ \E i \in 1..Len(rendered) : rendered[i].el = "selectbox" /\ y \in Range(rendered[i].rows)
    /\ Rerun(selection, y, selected_month, FALSE)

\* the month slider is moved
SelectMonth(m) ==
    /\ started /\ Shown("select_slider")
    /\ m # selected_month
    /\ Rerun(selection, selected_year, m, FALSE)

\* the analysis button is pressed
PressButton ==
    /\ started /\ Shown("button")
    /\ Rerun(selection, selected_year, selected_month, TRUE)

Next ==
    \/ Start
    \/ \E sel \in Range(options) : Navigate(sel)
    \/ \E y \in {2023, 2024} : SelectYear(y)
    \/ \E m \in Range(months) : SelectMonth(m)
    \/ PressButton

Spec == Init /\ [][Next]_vars

-----------------------------------------------------------------------------
(* What the claims speak about *)

\* the loaded records
DF == load_data(file).df

\* the table of the given name is on the page
ShownTable(name) ==
    \E i \in 1..Len(rendered) : rendered[i].el = "dataframe" /\ rendered[i].text = name

\* its rows
TableRows(name) ==
    LET i == CHOOSE i \in 1..Len(rendered) :
                rendered[i].el = "dataframe" /\ rendered[i].text = name
    IN rendered[i].rows

\* the message of the given kind and text is on the page
ShownMsg(kind, text) ==
    \E i \in 1..Len(rendered) : rendered[i].el = kind /\ rendered[i].text = text

\* the calendar number of a month name
MonthNumber(m) ==
    CASE m = "January" -> 1 [] m = "February" -> 2 [] m = "March" -> 3
      [] m = "April" -> 4 [] m = "May" -> 5 [] m = "June" -> 6
      [] m = "July" -> 7 [] m = "August" -> 8 [] m = "September" -> 9
      [] m = "October" -> 10 [] m = "November" -> 11 [] m = "December" -> 12

\* the records the selected year and month ask for, in file order
Window ==
    SelectSeq(DF, LAMBDA r : /\ r.type = "review"
                             /\ r.date.kind = "valid"
                             /\ r.date.year = selected_year
                             /\ r.date.month = MonthNumber(selected_month))

\* the date and content columns of records
Preview(recs) == [i \in 1..Len(recs) |-> [date |-> recs[i].date, content |-> recs[i].content]]

\* the year and month filters were applied in the last run
Filtered == Shown("subheader")

\* the product records
ProductRecords == OfType(DF, "product")

\* c is "Product: {name} - {t}" for some name
IsWellFormed(c, t) ==
    /\ Len(c) >= Len(Prefix) + Len(Delim) + Len(t)
    /\ StartsAt(c, Prefix, 1)
    /\ StartsAt(c, Delim \o t, Len(c) - Len(t) - Len(Delim) + 1)

\* that name
NameIn(c, t) == SubSeq(c, Len(Prefix) + 1, Len(c) - Len(t) - Len(Delim))

\* the first " - " of "Product: {name} - " is the one that ends it
FirstDelimEndsName(n) ==
    Find(Prefix \o n \o Delim, Delim) = Len(Prefix) + Len(n) + 1

\* c without a leading "Product: "
WithoutPrefix(c) ==
    IF StartsAt(c, Prefix, 1) THEN SubSeq(c, Len(Prefix) + 1, Len(c)) ELSE c

-----------------------------------------------------------------------------
(* C1 *)

\* C1: whenever the year and month filters have been applied, the filtered
\* review set is exactly the records of type review whose date is in the
\* selected year and in the selected month (January = 1), in file order:
\* when there are none the page says so, otherwise the count and the preview
\* table show exactly them.
C1_FilterSoundComplete ==
    Filtered =>
        IF Window = <<>>
        THEN /\ ShownMsg("info", "No reviews found for this time period.")
             /\ ~ShownTable("preview")
        ELSE /\ ShownTable("preview")
             /\ TableRows("preview") = Preview(Window)
             /\ \E i \in 1..Len(rendered) :
                    rendered[i].el = "write" /\ rendered[i].n = Len(Window)

\* a preview is shown that leaves out a review of the same year and another
\* month
C1_Witness ==
    /\ Filtered /\ ShownTable("preview")
    /\ selected_month # "January"
    /\ \E i \in 1..Len(DF) :
            /\ DF[i].type = "review"
            /\ DF[i].date.year = selected_year
            /\ DF[i].date.month # MonthNumber(selected_month)

-----------------------------------------------------------------------------
(* C2 *)

-----------------------------------------------------------------------------
(* C3 *)

\* C3: in the Products view a record with content "Product: A - B - 19.99"
\* gives the name "A" and no price; the run raises nothing and the table
\* keeps one row per product record.  In general a content with a second
\* " - " after the first one has no price.
C3_FirstDelimiterOnly ==
    (started /\ selection = "Products"
        /\ \E i \in 1..Len(ProductRecords) : ProductRecords[i].content = TwoDelims)
    => /\ uncaught = "none"
       /\ ShownTable("products")
       /\ Len(TableRows("products")) = Len(ProductRecords)
       /\ \A i \in 1..Len(ProductRecords) :
            LET c == ProductRecords[i].content
                k == Find(c, Delim)
            IN /\ c = TwoDelims =>
                    TableRows("products")[i] = [name |-> <<"A">>, price |-> NaNf]
               /\ (k # 0 /\ Find(SubSeq(c, k + Len(Delim), Len(c)), Delim) # 0) =>
                    TableRows("products")[i].price = NaNf

\* the table shows the record "Product: A - B - 19.99"
C3_Witness ==
    /\ ShownTable("products")
    /\ \E i \in 1..Len(ProductRecords) :
            /\ ProductRecords[i].content = TwoDelims
            /\ TableRows("products")[i].name = <<"A">>

-----------------------------------------------------------------------------
(* C4 *)

\* C4 as claimed: with at least one product record the Products view raises
\* nothing and shows one row per product record; a record without " - " has
\* the whole content, less a leading "Product: ", as its name and no price.
C4_NoDelimiterParsed ==
    (started /\ selection = "Products" /\ ProductRecords # <<>>)
    => /\ uncaught = "none"
       /\ ShownTable("products")
       /\ Len(TableRows("products")) = Len(ProductRecords)
       /\ \A i \in 1..Len(ProductRecords) :
            Find(ProductRecords[i].content, Delim) = 0 =>
                TableRows("products")[i] =
                    [name |-> WithoutPrefix(ProductRecords[i].content), price |-> NaNf]

-----------------------------------------------------------------------------
(* C5 *)

\* C5 as claimed: when data.csv is missing, zero bytes long or not readable,
\* no exception leaves the load, the run shows the instructional message and
\* stops before the model is loaded and before the navigation is drawn.
C5_LoadNeverCrashes ==
    (started /\ file.state \in {"missing", "zero_byte", "unreadable"})
    => /\ uncaught = "none"
       /\ \E i \in 1..Len(rendered) : rendered[i].el = "error"
       /\ ~model_loaded
       /\ ~Shown("sidebar.radio")

-----------------------------------------------------------------------------
(* C6 *)

\* the classifier was called in the last run and the call raised
ClassifierFailed == submitted # <<>> /\ results = <<>>

\* the count written above the preview
CountShown ==
    LET i == CHOOSE i \in 1..Len(rendered) : rendered[i].el = "write"
    IN rendered[i].n

\* C6: when the classifier call of an analysis raises, the exception ends
\* the run and is what the page shows for the action (the script has no
\* handler of its own; Streamlit displays the exception that ended the run):
\* no chart, word cloud or details table is on the page, the call was made
\* once, and the count and the preview table of the filtered reviews are on
\* the page as they were before the button was pressed.
C6_ClassifierFailureScoped ==
    /\ [](ClassifierFailed =>
            /\ uncaught = "ClassifierError"
            /\ Len(submitted) = 1
            /\ ~Shown("altair_chart") /\ ~Shown("pyplot") /\ ~ShownTable("details")
            /\ wc_inputs = <<>>
            /\ ShownTable("preview") /\ TableRows("preview") = Preview(Window)
            /\ \E i \in 1..Len(rendered) :
                    rendered[i].el = "write" /\ rendered[i].n = Len(Window))
    /\ [][ClassifierFailed' =>
            /\ ShownTable("preview") /\ TableRows("preview")' = TableRows("preview")
            /\ CountShown' = CountShown]_vars

\* an analysis of two reviews failed in the classifier
C6_Witness ==
    /\ ClassifierFailed
    /\ clicked
    /\ Len(Window) = 2

-----------------------------------------------------------------------------
(* C7 *)

-----------------------------------------------------------------------------
(* C8 *)

\* the loaded data has rows and the Reviews branch ran
ReviewsRan == started /\ selection = "Reviews" /\ uncaught \notin {"EmptyDataError", "PermissionError", "ValueError"} /\ DF # <<>>

\* the options of the year selectbox on the page
YearOptions ==
    LET i == CHOOSE i \in 1..Len(rendered) : rendered[i].el = "selectbox"
    IN rendered[i].rows

ReviewYears == {r.date.year : r \in Range(OfType(DF, "review"))}

\* a sequence of numbers that goes down strictly
Descending(seq) == \A i \in 1..(Len(seq) - 1) : seq[i] > seq[i + 1]

\* C8 as claimed: whenever Reviews is selected on loaded data that is not
\* empty, the year selectbox is offered and its options are not empty: the
\* distinct years of the reviews, descending, or the fallback year alone
\* when there is no review.
C8_YearControlAlways ==
    ReviewsRan =>
        /\ Shown("selectbox")
        /\ YearOptions # <<>>
        /\ YearOptions = IF ReviewYears = {} THEN <<2023>> ELSE SortedDesc(ReviewYears)

\* C8 as amended: whenever Reviews is selected on loaded data with at least
\* one review, the year selectbox is offered and its options are the distinct
\* years of the reviews, descending (so they are not empty); with no review
\* no year selectbox is offered and the page says "No reviews found.".
C8_YearControl ==
    ReviewsRan =>
        IF ReviewYears # {}
        THEN /\ Shown("selectbox")
             /\ YearOptions # <<>>
             /\ Range(YearOptions) = ReviewYears
             /\ Descending(YearOptions)
             /\ selected_year \in ReviewYears
        ELSE /\ ~Shown("selectbox")
             /\ ShownMsg("warning", "No reviews found.")

\* the selectbox offers two years
C8_Witness ==
    /\ ReviewsRan
    /\ Shown("selectbox")
    /\ Len(YearOptions) = 2

-----------------------------------------------------------------------------
(* C9 *)

\* a text of blanks only
IsBlank(t) == \A k \in 1..Len(t) : t[k] = " "

\* the analysis reached its word cloud section
CloudReached == ShownMsg("markdown", "Word Cloud")

\* C9 as claimed: the word cloud generator is never called on a text
\* without a word; when the contents of the filtered reviews are all blank
\* the generator is not called and a message that is no error is shown; the
\* chart before and the details table after are on the page in every case.
C9_WordCloudSkippedOnBlank ==
    /\ \A i \in 1..Len(wc_inputs) : ~IsBlank(wc_inputs[i])
    /\ CloudReached =>
        /\ Shown("altair_chart") /\ ShownTable("details")
        /\ (\A i \in 1..Len(Window) : IsBlank(Window[i].content)) =>
            /\ wc_inputs = <<>>
            /\ ShownMsg("warning", "Not enough text for a word cloud.")
            /\ ~ShownMsg("error", "Could not generate Word Cloud")

-----------------------------------------------------------------------------
(* C10 *)

\* results of a classification are on the page
ResultsShown == Shown("altair_chart") \/ ShownTable("details") \/ results # <<>>

\* C10: the classifier is called in a run only when Reviews is selected, the
\* filtered window is not empty and the button was pressed for this run;
\* results are on the page only in such a run and are those of the window
\* selected in it; a run started by a change of the navigation, the year or
\* the month shows no results.
C10_ClassifyOnlyOnTrigger ==
    /\ [](submitted # <<>> =>
            /\ selection = "Reviews" /\ clicked /\ Window # <<>>
            /\ Len(submitted[1]) = Len(Window))
    /\ [](ResultsShown =>
            /\ submitted # <<>> /\ clicked
            /\ Len(results) = Len(Window)
            /\ [i \in 1..Len(Window) |-> TableRows("details")[i].content]
                    = [i \in 1..Len(Window) |-> Window[i].content])
    /\ [][(started /\ (selection' # selection \/ selected_year' # selected_year
                        \/ selected_month' # selected_month))
            => ~ResultsShown' /\ submitted' = <<>>]_vars

\* results are on the page after the button was pressed
C10_Witness ==
    /\ clicked /\ ResultsShown
    /\ ShownTable("details")

====
